---- MODULE Spec2Model ----
(***************************************************************************)
(* Model of app.py: the Streamlit "Image to Video Converter".              *)
(*                                                                         *)
(* Every browser session runs the script in its own thread; all sessions   *)
(* share the process working directory and its "temp" sub-directory.  A    *)
(* press of "Generate Video" runs lines 88-139; the model splits that run  *)
(* at its filesystem and process calls so that the runs of two sessions    *)
(* interleave at those calls.                                              *)
(*                                                                         *)
(* Strings the code computes with (file names, paths, extensions, the      *)
(* FFmpeg diagnostic) are sequences of one-character strings.              *)
(***************************************************************************)
EXTENDS Integers, Sequences, FiniteSets, TLC

(***************************************************************************)
(* Bounds of the model.                                                    *)
(***************************************************************************)
\* Number of jobs (uuid4 calls) the whole process performs.
MaxJobs == 2

\* The browser sessions served at the same time.
Sessions == {"s1", "s2"}

(***************************************************************************)
(* Strings.                                                                *)
(***************************************************************************)
NoFile == <<>>          \* an uploader that holds no file (None)
NoToken == <<>>         \* no uuid generated in this run
NoPath == <<>>          \* a path the operating system cannot resolve

SEP == "/"
DOT == "."
DOTDOT == <<".", ".">>
TEMP == <<"t", "e", "m", "p">>

\* str.lower() on the characters the uploads below use.
LowerChar(c) ==
    CASE c = "X" -> "x"
      [] c = "Y" -> "y"
      [] c = "J" -> "j"
      [] c = "P" -> "p"
      [] c = "G" -> "g"
      [] c = "M" -> "m"
      [] c = "E" -> "e"
      [] OTHER -> c

lower(str) == [i \in 1..Len(str) |-> LowerChar(str[i])]

\* str.rfind(c): the last index of c in str, 0 when absent.
RFind(str, c) ==
    LET hits == {i \in 1..Len(str) : str[i] = c}
    IN  IF hits = {} THEN 0 ELSE CHOOSE i \in hits : \A j \in hits : j <= i

\* os.path.splitext(p)[1]: the text from the last dot of the last path
\* component, provided a character other than a dot precedes it inside
\* that component; otherwise the empty string.
splitext(p) ==
    LET sepIndex == RFind(p, SEP)
        dotIndex == RFind(p, DOT)
    IN  IF dotIndex > sepIndex
           /\ \E k \in (sepIndex + 1)..(dotIndex - 1) : p[k] # DOT
        THEN SubSeq(p, dotIndex, Len(p))
        ELSE <<>>

\* The image list with an extension added that line 97 does not accept.
ImageExts_AcceptsGif ==
    { <<".", "p", "n", "g">>, <<".", "j", "p", "g">>,
      <<".", "j", "p", "e", "g">>, <<".", "g", "i", "f">> }

\* The lists of lines 97 and 99.
ImageExts ==
    { <<".", "p", "n", "g">>, <<".", "j", "p", "g">>,
      <<".", "j", "p", "e", "g">> }

AudioExts ==
    { <<".", "m", "p", "3">>, <<".", "m", "p", "e", "g">> }

image_ext(name) == lower(splitext(name))
audio_ext(name) == lower(splitext(name))

(***************************************************************************)
(* The uploads a user can submit.                                          *)
(***************************************************************************)
TRAVERSAL == <<"a", "/", ".", ".", "/", ".", ".", "/">>

ImageUploads ==
    { <<"X", ".", "J", "P", "G">>,
      TRAVERSAL \o <<"x", ".", "p", "n", "g">>,
      <<"x", ".", "g", "i", "f">>,
      <<".", "p", "n", "g">> }

AudioUploads ==
    { <<"Y", ".", "M", "P", "E", "G">>,
      <<"y", ".", "w", "a", "v">> }

\* Contents of files.
ImageBytes == "image"
AudioBytes == "audio"
PartialBytes == "partial"
OutputBytes == {"B1", "B2"}
NoData == "none"

\* Diagnostic texts FFmpeg can print on stderr.
Diagnostics == { <<"<", "b", ">">> }

(***************************************************************************)
(* Messages.                                                               *)
(***************************************************************************)
MSG_MISSING == <<"Please upload both an image (PNG/JPG) and an audio (MP3) file.">>
MSG_NO_FFMPEG == <<"Cannot proceed: FFmpeg is not installed. Please follow the installation instructions above.">>
MSG_BAD_IMAGE == <<"Invalid image file. Please upload a PNG or JPG file.">>
MSG_BAD_AUDIO == <<"Invalid audio file. Please upload an MP3 file.">>
MSG_SUCCESS == <<"Video created successfully!">>
MSG_NOT_FOUND == <<"FFmpeg not found. Please ensure FFmpeg is installed and added to your system PATH.">>
MSG_FFMPEG_ERROR == <<"FFmpeg Error: ">>
NoMessage == <<>>

ErrorMarkup(message) == <<"<p class=\"error-message\">">> \o message \o <<"</p>">>
SuccessMarkup == <<"<p class=\"success-message\">">> \o MSG_SUCCESS \o <<"</p>">>

(***************************************************************************)
(* Paths and their resolution by the operating system.                     *)
(***************************************************************************)
Hex == <<"0", "1", "2", "3", "4", "5", "6", "7",
         "8", "9", "a", "b", "c", "d", "e", "f">>

\* str(uuid.uuid4()): a fixed-length string of hexadecimal digits; the n-th
\* call returns a value no earlier call returned.
uuid4(n) == << Hex[((n \div 16) % 16) + 1], Hex[(n % 16) + 1] >>

\* Lines 106-108, as functions of the run's token and upload names.
TempImagePath(uid, imageName) == TEMP \o <<SEP>> \o uid \o <<"_">> \o imageName
TempAudioPath(uid, audioName) == TEMP \o <<SEP>> \o uid \o <<"_">> \o audioName
OutputPath(uid) ==
    TEMP \o <<SEP>> \o <<"o", "u", "t", "p", "u", "t", "_">> \o uid
         \o <<".", "m", "p", "4">>

\* A path string cut at its separators.
RECURSIVE Split(_)
Split(p) ==
    LET seps == {i \in 1..Len(p) : p[i] = SEP}
    IN  IF seps = {} THEN <<p>>
        ELSE LET i == CHOOSE k \in seps : \A j \in seps : k <= j
             IN  <<SubSeq(p, 1, i - 1)>> \o Split(SubSeq(p, i + 1, Len(p)))

\* A resolved location is the sequence of components below the working
\* directory; a leading ".." component stands for the directory above it.
\* The directories that exist: the working directory, its ancestors, and
\* "temp" (created by lines 46-47 before any run).
IsDir(d) == d = <<TEMP>> \/ \A i \in 1..Len(d) : d[i] = DOTDOT

Parent(d) ==
    IF \A i \in 1..Len(d) : d[i] = DOTDOT THEN Append(d, DOTDOT)
    ELSE SubSeq(d, 1, Len(d) - 1)

StepInto(d, c) ==
    IF c = DOTDOT THEN Parent(d)
    ELSE IF c \in {<<>>, <<DOT>>} THEN d
    ELSE Append(d, c)

NamesDirectory(c) == c \in {<<>>, <<DOT>>, DOTDOT}

\* POSIX: every component before the last must be an existing directory at
\* the moment it is crossed.
RECURSIVE PosixWalk(_, _)
PosixWalk(comps, cur) ==
    IF Len(comps) = 1
    THEN IF NamesDirectory(comps[1]) THEN NoPath ELSE Append(cur, comps[1])
    ELSE LET nxt == StepInto(cur, Head(comps))
         IN  IF IsDir(nxt) THEN PosixWalk(Tail(comps), nxt) ELSE NoPath

\* Windows: "." and ".." are removed from the text of the path before the
\* filesystem is consulted; only the parent of the result must exist.
RECURSIVE Collapse(_, _)
Collapse(comps, stack) ==
    IF comps = <<>> THEN stack
    ELSE Collapse(Tail(comps), StepInto(stack, Head(comps)))

WindowsNormalize(comps) ==
    LET r == Collapse(comps, <<>>)
    IN  IF NamesDirectory(comps[Len(comps)]) \/ IsDir(r) THEN NoPath
        ELSE IF IsDir(Parent(r)) THEN r
        ELSE NoPath

\* The file a path string designates for open(), os.path.exists() and
\* os.remove(), or NoPath when a directory on the way does not exist.
Resolve(plat, p) ==
    IF plat = "windows" THEN WindowsNormalize(Split(p))
    ELSE PosixWalk(Split(p), <<>>)

\* The workspace root and the files directly inside it.
InWorkspaceRoot(r) == Len(r) = 2 /\ r[1] = TEMP

\* The filesystem: a set of <<location, content>> pairs, one per file.
Exists(fsys, r) == \E f \in fsys : f[1] = r
Content(fsys, r) == (CHOOSE f \in fsys : f[1] = r)[2]
WriteFile(fsys, r, data) == {f \in fsys : f[1] # r} \cup {<<r, data>>}
RemoveFile(fsys, r) == {f \in fsys : f[1] # r}

(***************************************************************************)
(* State.                                                                  *)
(***************************************************************************)
VARIABLES
    platform,          \* the operating system the process runs on
    ffmpeg_installed,  \* whether "ffmpeg" is on the search path right now
    fs,                \* the files below and around the working directory
    issued,            \* number of uuid4() calls made so far
    pc,                \* per session: the line its run has reached
    image_file,        \* per session: name of the uploaded image, or NoFile
    audio_file,        \* per session: name of the uploaded audio, or NoFile
    unique_id,         \* per session: the run's token, or NoToken
    result,            \* per session: (success, message) of line 119
    shown,             \* per session: the markup last rendered by the run
    download,          \* per session: the bytes of the download button
    exc,               \* per session: the exception that ended the run
    log                \* per session: the system calls of the run, in order

vars == << platform, ffmpeg_installed, fs, issued, pc, image_file,
           audio_file, unique_id, result, shown, download, exc, log >>

env == << platform, ffmpeg_installed, fs, issued >>

NoResult == [set |-> FALSE, success |-> FALSE, message |-> NoMessage]

\* One system call of a run: what was called, the file it designated, how
\* it ended, the bytes it carried, whether it left a file behind, and (for
\* a run of FFmpeg) the captured stderr.
Call(op, path, res, data, created) ==
    [op |-> op, path |-> path, res |-> res, data |-> data,
     created |-> created, stderr |-> <<>>]

\* The audio path derived from the image's name.
temp_audio_path_UsesImageName(s) ==
    TempAudioPath(unique_id[s], image_file[s])

\* The three paths of a run (lines 106-108) and the files they designate.
temp_image_path(s) == TempImagePath(unique_id[s], image_file[s])

temp_audio_path(s) == TempAudioPath(unique_id[s], audio_file[s])

output_path(s) == OutputPath(unique_id[s])

CleanupList(s) == << temp_image_path(s), temp_audio_path(s), output_path(s) >>

\* shutil.which("ffmpeg") is not None
check_ffmpeg == ffmpeg_installed

Init ==
    /\ platform \in {"posix", "windows"}
    /\ ffmpeg_installed \in BOOLEAN
    /\ fs = {}
    /\ issued = 0
    /\ pc = [s \in Sessions |-> "idle"]
    /\ image_file = [s \in Sessions |-> NoFile]
    /\ audio_file = [s \in Sessions |-> NoFile]
    /\ unique_id = [s \in Sessions |-> NoToken]
    /\ result = [s \in Sessions |-> NoResult]
    /\ shown = [s \in Sessions |-> NoMessage]
    /\ download = [s \in Sessions |-> NoData]
    /\ exc = [s \in Sessions |-> "none"]
    /\ log = [s \in Sessions |-> <<>>]

(***************************************************************************)
(* The environment: FFmpeg is installed or removed while the app runs.     *)
(***************************************************************************)
InstallTool ==
    /\ ~ffmpeg_installed
    /\ ffmpeg_installed' = TRUE
    /\ UNCHANGED << platform, fs, issued, pc, image_file, audio_file,
                    unique_id, result, shown, download, exc, log >>

RemoveTool ==
    /\ ffmpeg_installed
    /\ ffmpeg_installed' = FALSE
    /\ UNCHANGED << platform, fs, issued, pc, image_file, audio_file,
                    unique_id, result, shown, download, exc, log >>

(***************************************************************************)
(* Lines 88-100: the button press up to the end of validation.             *)
(***************************************************************************)
\* A run that ends with an error message before the job block.
Reject(s, img, aud, message, calls) ==
    /\ pc' = [pc EXCEPT ![s] = "done"]
    /\ image_file' = [image_file EXCEPT ![s] = img]
    /\ audio_file' = [audio_file EXCEPT ![s] = aud]
    /\ shown' = [shown EXCEPT ![s] = ErrorMarkup(message)]
    /\ log' = [log EXCEPT ![s] = calls]
    /\ UNCHANGED << env, unique_id, result, download, exc >>

ProbeCall == Call("probe", NoPath, IF check_ffmpeg THEN "true" ELSE "false",
                  NoData, FALSE)

\* Line 89-90.
SubmitMissing(s) ==
    /\ pc[s] = "idle"
    /\ \E img \in ImageUploads \cup {NoFile}, aud \in AudioUploads \cup {NoFile} :
          /\ img = NoFile \/ aud = NoFile
          /\ Reject(s, img, aud, MSG_MISSING, <<>>)

\* Line 91-92.
SubmitNoTool(s) ==
    /\ pc[s] = "idle"
    /\ \E img \in ImageUploads, aud \in AudioUploads :
          /\ ~check_ffmpeg
          /\ Reject(s, img, aud, MSG_NO_FFMPEG, <<ProbeCall>>)

\* Lines 95-98.
SubmitBadImage(s) ==
    /\ pc[s] = "idle"
    /\ \E img \in ImageUploads, aud \in AudioUploads :
          /\ check_ffmpeg
          /\ image_ext(img) \notin ImageExts
          /\ Reject(s, img, aud, MSG_BAD_IMAGE, <<ProbeCall>>)

\* Lines 95-100.
SubmitBadAudio(s) ==
    /\ pc[s] = "idle"
    /\ \E img \in ImageUploads, aud \in AudioUploads :
          /\ check_ffmpeg
          /\ image_ext(img) \in ImageExts
          /\ audio_ext(aud) \notin AudioExts
          /\ Reject(s, img, aud, MSG_BAD_AUDIO, <<ProbeCall>>)

\* The else-branch entered without the availability check of line 91.
Proceeds_NoProbe(img, aud) ==
    /\ image_ext(img) \in ImageExts
    /\ audio_ext(aud) \in AudioExts

\* The conditions of lines 91, 97 and 99 under which the else-branch of
\* line 101 is entered.
Proceeds(img, aud) ==
    /\ check_ffmpeg
    /\ image_ext(img) \in ImageExts
    /\ audio_ext(aud) \in AudioExts

\* Lines 101-108: validation passed; the token and the paths are derived.
StartJob(s) ==
    /\ pc[s] = "idle"
    /\ issued < MaxJobs
    /\ \E img \in ImageUploads, aud \in AudioUploads :
          /\ Proceeds(img, aud)
          /\ image_file' = [image_file EXCEPT ![s] = img]
          /\ audio_file' = [audio_file EXCEPT ![s] = aud]
    /\ unique_id' = [unique_id EXCEPT ![s] = uuid4(issued)]
    /\ issued' = issued + 1
    /\ pc' = [pc EXCEPT ![s] = "write_image"]
    /\ log' = [log EXCEPT ![s] = <<ProbeCall>>]
    /\ UNCHANGED << platform, ffmpeg_installed, fs, result, shown,
                    download, exc >>

(***************************************************************************)
(* Lines 110-113: the two uploads are written to their temp paths.         *)
(***************************************************************************)
Logged(s, call) == log' = [log EXCEPT ![s] = Append(@, call)]

\* An exception nothing in the script catches: the run stops where it is.
Raise(s, name) ==
    /\ pc' = [pc EXCEPT ![s] = "crashed"]
    /\ exc' = [exc EXCEPT ![s] = name]

\* with open(path, "wb") as f: f.write(buffer) -- completed.
WriteInput(s, path, data, next) ==
    LET r == Resolve(platform, path)
    IN  /\ r # NoPath
        /\ fs' = WriteFile(fs, r, data)
        /\ Logged(s, Call("write", r, "ok", data, TRUE))
        /\ pc' = [pc EXCEPT ![s] = next]
        /\ UNCHANGED << platform, ffmpeg_installed, issued, image_file,
                        audio_file, unique_id, result, shown, download, exc >>

\* open() raises FileNotFoundError when a directory of the path is missing;
\* f.write() raises OSError (disk full) after open() has created the file.
WriteInputRaises(s, path, data) ==
    LET r == Resolve(platform, path)
    IN  /\ IF r = NoPath
           THEN /\ Raise(s, "FileNotFoundError")
                /\ Logged(s, Call("write", NoPath, "ENOENT", data, FALSE))
                /\ fs' = fs
           ELSE /\ Raise(s, "OSError")
                /\ Logged(s, Call("write", r, "ENOSPC", PartialBytes, TRUE))
                /\ fs' = WriteFile(fs, r, PartialBytes)
        /\ UNCHANGED << platform, ffmpeg_installed, issued, image_file,
                        audio_file, unique_id, result, shown, download >>

WriteImage(s) ==
    /\ pc[s] = "write_image"
    /\ WriteInput(s, temp_image_path(s), ImageBytes, "write_audio")

WriteImageRaises(s) ==
    /\ pc[s] = "write_image"
    /\ WriteInputRaises(s, temp_image_path(s), ImageBytes)

WriteAudio(s) ==
    /\ pc[s] = "write_audio"
    /\ WriteInput(s, temp_audio_path(s), AudioBytes, "convert")

WriteAudioRaises(s) ==
    /\ pc[s] = "write_audio"
    /\ WriteInputRaises(s, temp_audio_path(s), AudioBytes)

(***************************************************************************)
(* Lines 29-43 and 119: FFmpeg is run once on the three paths.             *)
(***************************************************************************)
\* The conversion with FileNotFoundError reported like a failed run.
convert_image_to_video_NotFoundAsError(outcome, stderr) ==
    CASE outcome = "exit0" ->
           [set |-> TRUE, success |-> TRUE, message |-> MSG_SUCCESS]
      [] OTHER ->
           [set |-> TRUE, success |-> FALSE,
            message |-> MSG_FFMPEG_ERROR \o stderr]

\* The conversion with the captured stderr left out of the message.
convert_image_to_video_DropsStderr(outcome, stderr) ==
    CASE outcome = "exit0" ->
           [set |-> TRUE, success |-> TRUE, message |-> MSG_SUCCESS]
      [] outcome = "nonzero" ->
           [set |-> TRUE, success |-> FALSE, message |-> MSG_FFMPEG_ERROR]
      [] outcome = "notfound" ->
           [set |-> TRUE, success |-> FALSE, message |-> MSG_NOT_FOUND]

\* The value convert_image_to_video returns for each way subprocess.run
\* can end: normally, with CalledProcessError(stderr), or with
\* FileNotFoundError.
convert_image_to_video(outcome, stderr) ==
    CASE outcome = "exit0" ->
           [set |-> TRUE, success |-> TRUE, message |-> MSG_SUCCESS]
      [] outcome = "nonzero" ->
           [set |-> TRUE, success |-> FALSE,
            message |-> MSG_FFMPEG_ERROR \o stderr]
      [] outcome = "notfound" ->
           [set |-> TRUE, success |-> FALSE, message |-> MSG_NOT_FOUND]

Converted(s, outcome, stderr) ==
    /\ result' = [result EXCEPT ![s] = convert_image_to_video(outcome, stderr)]
    /\ pc' = [pc EXCEPT ![s] = "report"]
    /\ UNCHANGED << platform, ffmpeg_installed, issued, image_file,
                    audio_file, unique_id, shown, download, exc >>

\* FFmpeg writes its output file and exits with status 0.
ConvertSucceeds(s) ==
    /\ pc[s] = "convert"
    /\ ffmpeg_installed
    /\ \E B \in OutputBytes :
          LET out == Resolve(platform, output_path(s))
          IN  /\ fs' = WriteFile(fs, out, B)
              /\ Logged(s, Call("invoke", out, "exit0", B, TRUE))
    /\ Converted(s, "exit0", <<>>)

\* FFmpeg exits with a nonzero status (or is killed), with or without a
\* partly written output file.
ConvertFails(s) ==
    /\ pc[s] = "convert"
    /\ ffmpeg_installed
    /\ \E X \in Diagnostics, partial \in BOOLEAN :
          LET out == Resolve(platform, output_path(s))
          IN  /\ fs' = IF partial THEN WriteFile(fs, out, PartialBytes) ELSE fs
              /\ Logged(s, [Call("invoke", out, "nonzero", NoData, partial)
                               EXCEPT !.stderr = X])
              /\ Converted(s, "nonzero", X)

\* The executable is gone by the time subprocess.run looks for it.
ConvertNotFound(s) ==
    /\ pc[s] = "convert"
    /\ ~ffmpeg_installed
    /\ fs' = fs
    /\ Logged(s, Call("invoke", NoPath, "notfound", NoData, FALSE))
    /\ Converted(s, "notfound", <<>>)

(***************************************************************************)
(* Lines 124-134: the result is rendered.                                  *)
(***************************************************************************)
\* The download button handed a file that yields no bytes.
DownloadData_Empty(s) == NoData

\* The bytes st.download_button reads from the file opened at line 126.
DownloadData(s) == Content(fs, Resolve(platform, output_path(s)))

ReportSuccess(s) ==
    /\ pc[s] = "report"
    /\ result[s].success
    /\ shown' = [shown EXCEPT ![s] = SuccessMarkup]
    /\ IF Exists(fs, Resolve(platform, output_path(s)))
       THEN /\ download' = [download EXCEPT ![s] = DownloadData(s)]
            /\ Logged(s, Call("read", Resolve(platform, output_path(s)),
                              "ok", DownloadData(s), FALSE))
            /\ pc' = [pc EXCEPT ![s] = "cleanup1"]
            /\ exc' = exc
       ELSE /\ Raise(s, "FileNotFoundError")
            /\ Logged(s, Call("read", NoPath, "ENOENT", NoData, FALSE))
            /\ download' = download
    /\ UNCHANGED << env, image_file, audio_file, unique_id, result >>

ReportError(s) ==
    /\ pc[s] = "report"
    /\ ~result[s].success
    /\ shown' = [shown EXCEPT ![s] = ErrorMarkup(result[s].message)]
    /\ pc' = [pc EXCEPT ![s] = "cleanup1"]
    /\ UNCHANGED << env, image_file, audio_file, unique_id, result,
                    download, exc, log >>

(***************************************************************************)
(* Lines 137-139: the cleanup loop, one iteration per step.                *)
(***************************************************************************)
CleanupPc == << "cleanup1", "cleanup2", "cleanup3", "done" >>

\* if os.path.exists(path): os.remove(path)
Cleanup(s) ==
    \E i \in 1..3 :
       /\ pc[s] = CleanupPc[i]
       /\ LET r == Resolve(platform, CleanupList(s)[i])
          IN  IF r # NoPath /\ Exists(fs, r)
              THEN /\ fs' = RemoveFile(fs, r)
                   /\ Logged(s, Call("remove", r, "ok", NoData, FALSE))
              ELSE /\ fs' = fs
                   /\ log' = log
       /\ pc' = [pc EXCEPT ![s] = CleanupPc[i + 1]]
       /\ UNCHANGED << platform, ffmpeg_installed, issued, image_file,
                       audio_file, unique_id, result, shown, download, exc >>

(***************************************************************************)
(* The next interaction of the session runs the script again from the top. *)
(***************************************************************************)
Rerun(s) ==
    /\ pc[s] \in {"done", "crashed"}
    /\ pc' = [pc EXCEPT ![s] = "idle"]
    /\ image_file' = [image_file EXCEPT ![s] = NoFile]
    /\ audio_file' = [audio_file EXCEPT ![s] = NoFile]
    /\ unique_id' = [unique_id EXCEPT ![s] = NoToken]
    /\ result' = [result EXCEPT ![s] = NoResult]
    /\ shown' = [shown EXCEPT ![s] = NoMessage]
    /\ download' = [download EXCEPT ![s] = NoData]
    /\ exc' = [exc EXCEPT ![s] = "none"]
    /\ log' = [log EXCEPT ![s] = <<>>]
    /\ UNCHANGED env

Next ==
    \/ InstallTool
    \/ RemoveTool
    \/ \E s \in Sessions : SubmitMissing(s)
    \/ \E s \in Sessions : SubmitNoTool(s)
    \/ \E s \in Sessions : SubmitBadImage(s)
    \/ \E s \in Sessions : SubmitBadAudio(s)
    \/ \E s \in Sessions : StartJob(s)
    \/ \E s \in Sessions : WriteImage(s)
    \/ \E s \in Sessions : WriteImageRaises(s)
    \/ \E s \in Sessions : WriteAudio(s)
    \/ \E s \in Sessions : WriteAudioRaises(s)
    \/ \E s \in Sessions : ConvertSucceeds(s)
    \/ \E s \in Sessions : ConvertFails(s)
    \/ \E s \in Sessions : ConvertNotFound(s)
    \/ \E s \in Sessions : ReportSuccess(s)
    \/ \E s \in Sessions : ReportError(s)
    \/ \E s \in Sessions : Cleanup(s)
    \/ \E s \in Sessions : Rerun(s)

Spec == Init /\ [][Next]_vars

(***************************************************************************)
(* Vocabulary of the properties.                                           *)
(***************************************************************************)
JobStarted(s) == unique_id[s] # NoToken
Running(s) == JobStarted(s) /\ pc[s] \notin {"idle", "done", "crashed"}
Ended(s) == pc[s] \in {"done", "crashed"}
AfterReport(s) == pc[s] \in {"cleanup1", "cleanup2", "cleanup3", "done"}

\* The files the three paths of a started run designate.
JobFiles(s) ==
    { Resolve(platform, CleanupList(s)[i]) : i \in 1..3 } \ {NoPath}

Calls(s, ops) == { i \in DOMAIN log[s] : log[s][i].op \in ops }
TouchedFiles(s) ==
    { log[s][i].path : i \in Calls(s, {"write", "invoke", "read", "remove"}) }
        \ {NoPath}

\* The extension sets as the specification states them.
StatedImageExts ==
    { <<".", "p", "n", "g">>, <<".", "j", "p", "g">>,
      <<".", "j", "p", "e", "g">> }
StatedAudioExts ==
    { <<".", "m", "p", "3">>, <<".", "m", "p", "e", "g">> }

Contains(str, part) ==
    \E i \in 1..(Len(str) - Len(part) + 1) :
        SubSeq(str, i, i + Len(part) - 1) = part

(***************************************************************************)
(* Properties.                                                             *)
(***************************************************************************)

\* C1: once a started job has ended, on whatever exit path (FFmpeg exit 0,
\* nonzero exit, executable missing, or an exception), none of the files
\* designated by its three paths exists any more.
C1_CleanupOnEveryExit ==
    \A s \in Sessions :
        (JobStarted(s) /\ Ended(s)) =>
            \A r \in JobFiles(s) : ~Exists(fs, r)

\* C2: a submit of two uploads of which the image's extension (lower-cased)
\* is not .png/.jpg/.jpeg or the audio's is not .mp3/.mpeg is rejected with
\* an error message before any filesystem work: no token is generated, the
\* run makes no write, delete or read, and FFmpeg is not invoked.
C2_InvalidExtensionRejectedBeforeWrite ==
    \A s \in Sessions :
        ( /\ image_file[s] # NoFile
          /\ audio_file[s] # NoFile
          /\ \/ lower(splitext(image_file[s])) \notin StatedImageExts
             \/ lower(splitext(audio_file[s])) \notin StatedAudioExts )
        => /\ pc[s] = "done"
           /\ unique_id[s] = NoToken
           /\ Calls(s, {"write", "invoke", "read", "remove"}) = {}
           /\ shown[s] \in { ErrorMarkup(MSG_NO_FFMPEG),
                             ErrorMarkup(MSG_BAD_IMAGE),
                             ErrorMarkup(MSG_BAD_AUDIO) }
           /\ download[s] = NoData

W_C2_Rejected ==
    \E s \in Sessions :
        /\ image_file[s] # NoFile
        /\ audio_file[s] # NoFile
        /\ lower(splitext(image_file[s])) \notin StatedImageExts
        /\ lower(splitext(audio_file[s])) \in StatedAudioExts
        /\ shown[s] = ErrorMarkup(MSG_BAD_IMAGE)
        /\ fs # {}

\* C3: two jobs running at the same time never share a file: the files
\* their paths designate are disjoint, and no call of one job touches a
\* file of the other.
C3_ConcurrentJobsDisjoint ==
    \A s, t \in Sessions :
        (s # t /\ Running(s) /\ Running(t)) =>
            /\ JobFiles(s) \cap JobFiles(t) = {}
            /\ TouchedFiles(s) \cap JobFiles(t) = {}

\* C4: when the FFmpeg executable is missing at invocation, the conversion
\* returns (False, the fixed "FFmpeg not found" guidance), no download is
\* offered, and the job's output file exists at no point of the job.
C4_ToolNotFound ==
    \A s \in Sessions :
        /\ (JobStarted(s) /\ pc[s] \in {"write_image", "write_audio", "convert"})
              => ~Exists(fs, Resolve(platform, output_path(s)))
        /\ (\E i \in Calls(s, {"invoke"}) : log[s][i].res = "notfound")
              => /\ result[s] = [set |-> TRUE, success |-> FALSE,
                                 message |-> MSG_NOT_FOUND]
                 /\ ~Exists(fs, Resolve(platform, output_path(s)))
                 /\ \A i \in DOMAIN log[s] :
                       log[s][i].created =>
                           log[s][i].path # Resolve(platform, output_path(s))
                 /\ download[s] = NoData
                 /\ AfterReport(s) => shown[s] = ErrorMarkup(MSG_NOT_FOUND)

W_C4_ToolNotFound ==
    \E s \in Sessions :
        /\ pc[s] = "done"
        /\ \E i \in Calls(s, {"invoke"}) : log[s][i].res = "notfound"

\* C5: no run ends in an exception that nothing catches; every run that
\* has ended has rendered a message.
C5_NoUnhandledException ==
    \A s \in Sessions :
        /\ pc[s] # "crashed"
        /\ exc[s] = "none"
        /\ pc[s] = "done" => shown[s] # NoMessage

\* C6: when FFmpeg exits 0 after writing bytes B to the output path, the
\* run reports success, the download button carries exactly B, and B was
\* read from the output file before any file of the run was removed; no run
\* renders success or a download without that complete output.
C6_SuccessExposesOutputBeforeCleanup ==
    \A s \in Sessions :
        /\ \A i \in Calls(s, {"invoke"}) :
              log[s][i].res = "exit0" =>
                 /\ result[s].success
                 /\ result[s].message = MSG_SUCCESS
                 /\ AfterReport(s) =>
                       /\ shown[s] = SuccessMarkup
                       /\ download[s] = log[s][i].data
                       /\ \E j \in Calls(s, {"read"}) :
                             /\ j > i
                             /\ log[s][j].path = log[s][i].path
                             /\ log[s][j].data = log[s][i].data
                             /\ \A k \in Calls(s, {"remove"}) : j < k
        /\ (download[s] # NoData \/ shown[s] = SuccessMarkup) =>
              /\ download[s] \in OutputBytes
              /\ \E i \in Calls(s, {"invoke"}) :
                    log[s][i].res = "exit0" /\ log[s][i].data = download[s]

W_C6_Downloaded ==
    \E s \in Sessions :
        /\ pc[s] = "done"
        /\ download[s] = "B2"
        /\ \E i \in Calls(s, {"invoke"}) : log[s][i].res = "exit0"
        /\ Calls(s, {"remove"}) # {}
        /\ ~Exists(fs, Resolve(platform, output_path(s)))

\* C7: when FFmpeg exits nonzero with diagnostic text X, the conversion
\* returns success = False and a message containing X verbatim (which is
\* the message rendered), FFmpeg is run exactly once in the job, and no
\* download is offered.
C7_ToolFailureReportedOnce ==
    \A s \in Sessions :
        /\ Cardinality(Calls(s, {"invoke"})) <= 1
        /\ \A i \in Calls(s, {"invoke"}) :
              log[s][i].res = "nonzero" =>
                 /\ result[s].set
                 /\ ~result[s].success
                 /\ log[s][i].stderr \in Diagnostics
                 /\ Contains(result[s].message, log[s][i].stderr)
                 /\ AfterReport(s) => Contains(shown[s], log[s][i].stderr)
                 /\ download[s] = NoData
                 /\ Calls(s, {"read"}) = {}

W_C7_ToolFailed ==
    \E s \in Sessions :
        /\ pc[s] = "done"
        /\ \E i \in Calls(s, {"invoke"}) :
              log[s][i].res = "nonzero" /\ log[s][i].stderr = <<"<", "b", ">">>

C9_WritesStayInWorkspaceRoot ==
    \A s \in Sessions :
        \A i \in Calls(s, {"write", "invoke", "remove"}) :
            log[s][i].path # NoPath => InWorkspaceRoot(log[s][i].path)

\* C10: within one job the three derived paths are pairwise distinct, as
\* strings and (checked when the paths are derived, since token, names and
\* platform do not change during the job) as files, so the two input writes
\* and FFmpeg's output never land on the same file.
C10_JobPathsPairwiseDistinct ==
    \A s \in Sessions :
        JobStarted(s) =>
            /\ \A i, j \in 1..3 :
                  i < j => CleanupList(s)[i] # CleanupList(s)[j]
            /\ pc[s] = "write_image" =>
                  LET files == [i \in 1..3 |->
                                   Resolve(platform, CleanupList(s)[i])]
                  IN  \A i, j \in 1..3 :
                         i < j => (files[i] = NoPath \/ files[i] # files[j])
            /\ \A i, j \in DOMAIN log[s] :
                  (i < j /\ log[s][i].created /\ log[s][j].created) =>
                      log[s][i].path # log[s][j].path

W_C10_ThreeFilesCreated ==
    \E s \in Sessions :
        /\ pc[s] = "report"
        /\ Cardinality({ i \in DOMAIN log[s] : log[s][i].created }) = 3
        /\ Cardinality(JobFiles(s)) = 3

====
